---- MODULE Spec2Model ----
(***************************************************************************)
(* Model of CGUIConfigurationWizard                                        *)
(* (xbmc/games/controllers/windows/GUIConfigurationWizard.cpp).            *)
(*                                                                         *)
(* Threads:                                                                *)
(*   "worker"     the CThread running Process()                            *)
(*   "ui"         the application thread: Run, Abort, OnUnfocus,           *)
(*                OnKeyPress, OnButtonPress                                *)
(*   InputThreads the input threads: MapPrimitive, OnEventFrame            *)
(*   the observable's dispatcher: Notify                                   *)
(* Every handler is cut at the points where it reads or writes state that  *)
(* another thread can touch.                                               *)
(***************************************************************************)
EXTENDS Integers, Sequences, FiniteSets, TLC

\* #define ESC_KEY_CODE 27
ESC_KEY_CODE == 27

InputThreads == {"in1", "in2"}
AbortCallers == InputThreads \cup {"ui", "worker"}

\* The device button maps (JOYSTICK::IButtonMap) primitives arrive from.
ButtonMaps == {"bm1"}

\* Driver primitives (JOYSTICK::CDriverPrimitive): a type tag and an index.
Button(i) == [type |-> "BUTTON", index |-> i]
Axis(i) == [type |-> "AXIS", index |-> i]
NoPrimitive == [type |-> "UNKNOWN", index |-> 0]
Primitives == {Button(ESC_KEY_CODE), Axis(ESC_KEY_CODE), Button(3), Axis(0)}

\* buttonMap->IsIgnored(primitive): the device's ignore policy.
IsIgnored(bm, p) == p.index = ESC_KEY_CODE

\* The cancel input of MapPrimitive (lines 175-176).
IsCancel(p) == p.type = "BUTTON" /\ p.index = ESC_KEY_CODE

\* The feature buttons (IFeatureButton) a caller can pass to Run, by id;
\* 0 stands for nullptr.
NoButton == 0
FeatureButtons == {1, 2, 3}
Feature(b) ==
  CASE b = 1 -> [name |-> "A", type |-> "SCALAR"]
    [] b = 2 -> [name |-> "Left", type |-> "ANALOG_STICK"]
    [] OTHER -> [name |-> "Tilt", type |-> "ACCELEROMETER"]
\* The directions a feature button prompts for, in order.
Directions(b) ==
  CASE b = 1 -> <<"UNKNOWN">>
    [] b = 2 -> <<"UP", "DOWN">>
    [] OTHER -> <<"UNKNOWN">>
\* button->IsFinished() and button->GetDirection(), with n prompts answered.
IsFinished(b, n) == n >= Len(Directions(b))
GetDirection(b, n) == IF n < Len(Directions(b)) THEN Directions(b)[n + 1] ELSE "UNKNOWN"

\* The lists of buttons Run is called with.
ButtonLists == {<<1, 3>>, <<2>>}

\* Messages an Observable sends.
Messages == {"PeripheralsChanged", "Other"}

VARIABLES
  wpc,               \* worker: position in Process(); "idle" = no thread running
  wIndex,            \* worker: index into m_buttons of the for loop
  wPrompts,          \* state of the current button: prompts answered so far
  pc,                \* ui and input threads: position in their handler
  ab,                \* per thread: position inside Abort()
  prim,              \* input thread: the primitive being mapped
  bmap,              \* input thread: the button map of the call
  snap,              \* input thread: <<currentButton, currentDirection>> snapshot
  bHandled,          \* input thread: MapPrimitive's result; ui: Abort's result
  obspc,             \* dispatcher: position inside Notify()
  m_bStop,           \* CThread::m_bStop
  m_inputEvent,      \* CEvent: signaled?
  m_motionlessEvent, \* CEvent: "none" (not signaled) or who signaled it
  m_currentButton,
  m_currentDirection,
  m_history,
  m_bInMotion,
  m_buttons,
  m_stateMutex,      \* owner of m_stateMutex, or "none"
  bEmulation,        \* m_bEmulation, set by the constructor (false: hooks the keyboard)
  mapperReg,         \* this is registered as joystick button mapper
  observerReg,       \* this is registered as observer of g_peripherals
  keyboardReg,       \* this is registered as keyboard handler
  mouseReg,          \* this is registered as mouse handler
  recorded,          \* primitives given to AddScalar/AddAnalogStick in this run
  unsaved            \* button maps with a record newer than their last SaveButtonMap

vars == <<wpc, wIndex, wPrompts, pc, ab, prim, bmap, snap, bHandled, obspc, m_bStop,
          m_inputEvent, m_motionlessEvent, m_currentButton, m_currentDirection,
          m_history, m_bInMotion, m_buttons, m_stateMutex, bEmulation, mapperReg,
          observerReg, keyboardReg, mouseReg, recorded, unsaved>>

workerVars == <<wpc, wIndex, wPrompts>>
callVars == <<prim, bmap, snap>>
threadVars == <<pc, callVars, bHandled>>
sessionVars == <<m_currentButton, m_currentDirection, m_history>>
eventVars == <<m_inputEvent, m_motionlessEvent>>
hookVars == <<mapperReg, observerReg, keyboardReg, mouseReg>>
mapVars == <<recorded, unsaved>>

NoSnap == <<NoButton, "UNKNOWN">>

\* CThread::IsRunning()
IsRunning == wpc # "idle"

\* CEvent: signaled or not (m_motionlessEvent also keeps who signaled it).
Signaled(e) == e # "none"

Init ==
  /\ wpc = "idle" /\ wIndex = 0 /\ wPrompts = 0
  /\ pc = [t \in InputThreads \cup {"ui"} |-> "idle"]
  /\ ab = [t \in AbortCallers |-> "none"]
  /\ prim = [t \in InputThreads |-> NoPrimitive]
  /\ bmap = [t \in InputThreads |-> "none"]
  /\ snap = [t \in InputThreads |-> NoSnap]
  /\ bHandled = [t \in InputThreads \cup {"ui"} |-> FALSE]
  /\ obspc = "idle"
  /\ m_bStop = FALSE
  /\ m_inputEvent = FALSE
  /\ m_motionlessEvent = "none"
  /\ m_currentButton = NoButton
  /\ m_currentDirection = "UNKNOWN"
  /\ m_history = {}
  /\ m_bInMotion = {}
  /\ m_buttons = <<>>
  /\ m_stateMutex = "none"
  /\ bEmulation \in BOOLEAN
  /\ mapperReg = FALSE /\ observerReg = FALSE /\ keyboardReg = FALSE /\ mouseReg = FALSE
  /\ recorded = {}
  /\ unsaved = {}

\* A registry holds a handler once: registering a registered handler and
\* unregistering an unregistered one change nothing.
Register(registered) == TRUE
Unregister(registered) == FALSE

\* CEvent::Set by `who`: an event that is already signaled stays as it is.
SetEvent(e, who) == IF Signaled(e) THEN e ELSE who

(***************************************************************************)
(* InitializeState (lines 48-53)                                           *)
(***************************************************************************)
InitializeState ==
  /\ m_currentButton' = NoButton
  /\ m_currentDirection' = "UNKNOWN"
  /\ m_history' = {}

(***************************************************************************)
(* Abort(bWait) (lines 86-101), run by thread t.  ab[t] is the position:   *)
(*   "stop"        StopThread(false)            line 90                    *)
(*   "input"       m_inputEvent.Set()           line 92                    *)
(*   "motionless"  m_motionlessEvent.Set()      line 93                    *)
(*   "return"      back to the caller (bWait = false), or                  *)
(*   "wait"        StopThread(true)             line 96                    *)
(***************************************************************************)
\* bWait of the Abort call thread t is in: Run calls Abort(), the callbacks and
\* the worker call Abort(false).
BWait(t) == t = "ui" /\ pc["ui"] = "Run"

\* Abort without the IsRunning() test of line 88.
AbortEnter_NoRunningTest(t) == [ab EXCEPT ![t] = "stop"]

\* Line 88: the position after the IsRunning() test.
AbortEnter(t) == IF IsRunning THEN [ab EXCEPT ![t] = "stop"] ELSE ab

AbortStopThread(t) ==
  /\ ab[t] = "stop"
  /\ m_bStop' = TRUE
  /\ ab' = [ab EXCEPT ![t] = "input"]
  /\ UNCHANGED <<workerVars, threadVars, obspc, eventVars, sessionVars, m_bInMotion,
                 m_buttons, m_stateMutex, bEmulation, hookVars, mapVars>>

AbortSetInput(t) ==
  /\ ab[t] = "input"
  /\ m_inputEvent' = TRUE
  /\ ab' = [ab EXCEPT ![t] = "motionless"]
  /\ UNCHANGED <<workerVars, threadVars, obspc, m_bStop, m_motionlessEvent, sessionVars,
                 m_bInMotion, m_buttons, m_stateMutex, bEmulation, hookVars, mapVars>>

AbortSetMotionless(t) ==
  /\ ab[t] = "motionless"
  /\ m_motionlessEvent' = SetEvent(m_motionlessEvent, "Abort")
  /\ ab' = [ab EXCEPT ![t] = IF BWait(t) THEN "wait" ELSE "return"]
  /\ UNCHANGED <<workerVars, threadVars, obspc, m_bStop, m_inputEvent, sessionVars,
                 m_bInMotion, m_buttons, m_stateMutex, bEmulation, hookVars, mapVars>>

\* Line 96, StopThread(true): returns once the worker thread has exited.
AbortWait(t) ==
  /\ ab[t] = "wait"
  /\ ~IsRunning
  /\ ab' = [ab EXCEPT ![t] = "return"]
  /\ UNCHANGED <<workerVars, threadVars, obspc, m_bStop, eventVars, sessionVars,
                 m_bInMotion, m_buttons, m_stateMutex, bEmulation, hookVars, mapVars>>

(***************************************************************************)
(* InstallHooks / RemoveHooks (lines 271-296)                              *)
(***************************************************************************)
InstallHooks ==
  /\ mapperReg' = Register(mapperReg)
  /\ observerReg' = Register(observerReg)
  /\ keyboardReg' = IF ~bEmulation THEN Register(keyboardReg) ELSE keyboardReg
  /\ mouseReg' = Register(mouseReg)

RemoveHooks ==
  /\ mouseReg' = Unregister(mouseReg)
  /\ keyboardReg' = IF ~bEmulation THEN Unregister(keyboardReg) ELSE keyboardReg
  /\ observerReg' = Unregister(observerReg)
  /\ mapperReg' = Unregister(mapperReg)

(***************************************************************************)
(* Process (lines 103-164), the worker thread                              *)
(***************************************************************************)
\* Line 107
ProcessInstallHooks ==
  /\ wpc = "install"
  /\ InstallHooks
  /\ wpc' = "lock"
  /\ UNCHANGED <<wIndex, wPrompts, threadVars, ab, obspc, m_bStop, eventVars, sessionVars,
                 m_bInMotion, m_buttons, m_stateMutex, bEmulation, mapVars>>

\* Line 110: CSingleLock lock(m_stateMutex)
ProcessLock ==
  /\ wpc = "lock"
  /\ m_stateMutex = "none"
  /\ m_stateMutex' = "worker"
  /\ wIndex' = 1
  /\ wpc' = "for"
  /\ UNCHANGED <<wPrompts, threadVars, ab, obspc, m_bStop, eventVars, sessionVars,
                 m_bInMotion, m_buttons, bEmulation, hookVars, mapVars>>

\* Lines 111-114: the next button becomes the current one, or the loop ends.
ProcessFor ==
  /\ wpc = "for"
  /\ IF wIndex <= Len(m_buttons)
       THEN /\ m_currentButton' = m_buttons[wIndex]
            /\ wpc' = "while"
       ELSE /\ m_currentButton' = m_currentButton
            /\ wpc' = "init"
  /\ UNCHANGED <<wIndex, wPrompts, threadVars, ab, obspc, m_bStop, eventVars,
                 m_currentDirection, m_history, m_bInMotion, m_buttons, m_stateMutex,
                 bEmulation, hookVars, mapVars>>

\* The while loop without the CSingleExit of line 123: the worker waits for
\* input with m_stateMutex held.
ProcessWhile_KeepLock ==
  /\ wpc = "while"
  /\ IF ~IsFinished(m_currentButton, wPrompts)
       THEN /\ m_currentDirection' = GetDirection(m_currentButton, wPrompts)
            /\ wpc' = "prompt"
       ELSE /\ UNCHANGED m_currentDirection
            /\ wpc' = "reset"
  /\ UNCHANGED <<wIndex, wPrompts, threadVars, ab, obspc, m_bStop, eventVars,
                 m_currentButton, m_history, m_bInMotion, m_buttons, m_stateMutex,
                 bEmulation, hookVars, mapVars>>

\* Lines 116-123: while (!IsFinished()): publish the direction, leave the lock.
ProcessWhile ==
  /\ wpc = "while"
  /\ IF ~IsFinished(m_currentButton, wPrompts)
       THEN /\ m_currentDirection' = GetDirection(m_currentButton, wPrompts)
            /\ m_stateMutex' = "none"
            /\ wpc' = "prompt"
       ELSE /\ UNCHANGED <<m_currentDirection, m_stateMutex>>
            /\ wpc' = "reset"
  /\ UNCHANGED <<wIndex, wPrompts, threadVars, ab, obspc, m_bStop, eventVars,
                 m_currentButton, m_history, m_bInMotion, m_buttons, bEmulation,
                 hookVars, mapVars>>

\* Line 127: PromptForInput(m_inputEvent) returns true: the wait on the event
\* ended and the button took the input.
ProcessPromptInput ==
  /\ wpc = "prompt"
  /\ m_inputEvent
  /\ m_inputEvent' = FALSE
  /\ wPrompts' = wPrompts + 1
  /\ wpc' = "relock"
  /\ UNCHANGED <<wIndex, threadVars, ab, obspc, m_bStop, m_motionlessEvent, sessionVars,
                 m_bInMotion, m_buttons, m_stateMutex, bEmulation, hookVars, mapVars>>

\* A failed prompt that is swallowed: no Abort(false).
ProcessPromptFailed_NoAbort ==
  /\ wpc = "prompt"
  /\ wpc' = "abort"
  /\ UNCHANGED <<wIndex, wPrompts, threadVars, ab, obspc, m_bStop, eventVars, sessionVars,
                 m_bInMotion, m_buttons, m_stateMutex, bEmulation, hookVars, mapVars>>

\* Lines 127-128: PromptForInput returns false: Abort(false).
ProcessPromptFailed ==
  /\ wpc = "prompt"
  /\ wpc' = "abort"
  /\ ab' = AbortEnter("worker")
  /\ UNCHANGED <<wIndex, wPrompts, threadVars, obspc, m_bStop, eventVars, sessionVars,
                 m_bInMotion, m_buttons, m_stateMutex, bEmulation, hookVars, mapVars>>

ProcessAbortReturn ==
  /\ wpc = "abort"
  /\ ab["worker"] \in {"return", "none"}
  /\ ab' = [ab EXCEPT !["worker"] = "none"]
  /\ wpc' = "relock"
  /\ UNCHANGED <<wIndex, wPrompts, threadVars, obspc, m_bStop, eventVars, sessionVars,
                 m_bInMotion, m_buttons, m_stateMutex, bEmulation, hookVars, mapVars>>

\* A stop that leaves both loops at line 132, past the Reset of line 135.
ProcessRelock_SkipReset ==
  /\ wpc = "relock"
  /\ m_stateMutex = "none"
  /\ m_stateMutex' = "worker"
  /\ wpc' = IF m_bStop THEN "init" ELSE "while"
  /\ UNCHANGED <<wIndex, wPrompts, threadVars, ab, obspc, m_bStop, eventVars, sessionVars,
                 m_bInMotion, m_buttons, bEmulation, hookVars, mapVars>>

\* Lines 129-132: ~CSingleExit takes the lock again; if (m_bStop) break.
ProcessRelock ==
  /\ wpc = "relock"
  /\ m_stateMutex = "none"
  /\ m_stateMutex' = "worker"
  /\ wpc' = IF m_bStop THEN "reset" ELSE "while"
  /\ UNCHANGED <<wIndex, wPrompts, threadVars, ab, obspc, m_bStop, eventVars, sessionVars,
                 m_bInMotion, m_buttons, bEmulation, hookVars, mapVars>>

\* Lines 135-138: button->Reset(); if (m_bStop) break.
ProcessReset ==
  /\ wpc = "reset"
  /\ wPrompts' = 0
  /\ IF m_bStop
       THEN wpc' = "init" /\ wIndex' = wIndex
       ELSE wpc' = "for" /\ wIndex' = wIndex + 1
  /\ UNCHANGED <<threadVars, ab, obspc, m_bStop, eventVars, sessionVars, m_bInMotion,
                 m_buttons, m_stateMutex, bEmulation, hookVars, mapVars>>

\* Lines 141-143: InitializeState(), then the lock and the loop variable go
\* out of scope.
ProcessInitializeState ==
  /\ wpc = "init"
  /\ InitializeState
  /\ m_stateMutex' = "none"
  /\ wIndex' = 0
  /\ wpc' = "save"
  /\ UNCHANGED <<wPrompts, threadVars, ab, obspc, m_bStop, eventVars, m_bInMotion,
                 m_buttons, bEmulation, hookVars, mapVars>>

\* Lines 145-146: SaveButtonMap() on every button map callback.
ProcessSaveButtonMap ==
  /\ wpc = "save"
  /\ unsaved' = {}
  /\ wpc' = "motion"
  /\ UNCHANGED <<wIndex, wPrompts, threadVars, ab, obspc, m_bStop, eventVars, sessionVars,
                 m_bInMotion, m_buttons, m_stateMutex, bEmulation, hookVars, recorded>>

\* Lines 148-155: bInMotion = !m_bInMotion.empty(), under m_motionMutex.
ProcessCheckMotion ==
  /\ wpc = "motion"
  /\ wpc' = IF m_bInMotion # {} THEN "settle" ELSE "remove"
  /\ UNCHANGED <<wIndex, wPrompts, threadVars, ab, obspc, m_bStop, eventVars, sessionVars,
                 m_bInMotion, m_buttons, m_stateMutex, bEmulation, hookVars, mapVars>>

\* Line 158: m_motionlessEvent.WaitMSec(...) ends because the event is signaled.
ProcessSettleSignaled ==
  /\ wpc = "settle"
  /\ Signaled(m_motionlessEvent)
  /\ m_motionlessEvent' = "none"
  /\ wpc' = "remove"
  /\ UNCHANGED <<wIndex, wPrompts, threadVars, ab, obspc, m_bStop, m_inputEvent,
                 sessionVars, m_bInMotion, m_buttons, m_stateMutex, bEmulation, hookVars,
                 mapVars>>

\* A wait for the motion to settle that has no timeout.
ProcessSettleTimeout_Never ==
  /\ FALSE
  /\ UNCHANGED vars

\* Line 158: the wait ends after POST_MAPPING_WAIT_TIME_MS.
ProcessSettleTimeout ==
  /\ wpc = "settle"
  /\ wpc' = "remove"
  /\ UNCHANGED <<wIndex, wPrompts, threadVars, ab, obspc, m_bStop, eventVars, sessionVars,
                 m_bInMotion, m_buttons, m_stateMutex, bEmulation, hookVars, mapVars>>

\* Lines 161-164: RemoveHooks(); Process returns and the thread exits: the run
\* and its records are over.
ProcessRemoveHooks ==
  /\ wpc = "remove"
  /\ RemoveHooks
  /\ wpc' = "idle"
  /\ recorded' = {}
  /\ UNCHANGED <<wIndex, wPrompts, threadVars, ab, obspc, m_bStop, eventVars, sessionVars,
                 m_bInMotion, m_buttons, m_stateMutex, bEmulation, unsaved>>

(***************************************************************************)
(* Run (lines 55-76), on the application thread                            *)
(***************************************************************************)
\* Line 57: Abort()
RunAbort ==
  /\ pc["ui"] = "idle"
  /\ pc' = [pc EXCEPT !["ui"] = IF IsRunning THEN "Run" ELSE "Run_reset"]
  /\ ab' = AbortEnter("ui")
  /\ UNCHANGED <<workerVars, callVars, bHandled, obspc, m_bStop, eventVars, sessionVars,
                 m_bInMotion, m_buttons, m_stateMutex, bEmulation, hookVars, mapVars>>

RunAbortReturn ==
  /\ pc["ui"] = "Run"
  /\ ab["ui"] = "return"
  /\ ab' = [ab EXCEPT !["ui"] = "none"]
  /\ pc' = [pc EXCEPT !["ui"] = "Run_reset"]
  /\ UNCHANGED <<workerVars, callVars, bHandled, obspc, m_bStop, eventVars, sessionVars,
                 m_bInMotion, m_buttons, m_stateMutex, bEmulation, hookVars, mapVars>>

\* Lines 59-73, under m_stateMutex; a new run's records start here.
RunReset(buttons) ==
  /\ pc["ui"] = "Run_reset"
  /\ m_stateMutex = "none"
  /\ m_buttons' = buttons
  /\ m_inputEvent' = FALSE
  /\ m_motionlessEvent' = "none"
  /\ m_bInMotion' = {}
  /\ InitializeState
  /\ recorded' = {}
  /\ pc' = [pc EXCEPT !["ui"] = "Run_create"]
  /\ UNCHANGED <<workerVars, ab, callVars, bHandled, obspc, m_bStop, m_stateMutex,
                 bEmulation, hookVars, unsaved>>

\* Line 75: Create() clears m_bStop and starts the thread at Process().
RunCreate ==
  /\ pc["ui"] = "Run_create"
  /\ m_bStop' = FALSE
  /\ wpc' = "install"
  /\ pc' = [pc EXCEPT !["ui"] = "idle"]
  /\ UNCHANGED <<wIndex, wPrompts, ab, callVars, bHandled, obspc, eventVars, sessionVars,
                 m_bInMotion, m_buttons, m_stateMutex, bEmulation, hookVars, mapVars>>

(***************************************************************************)
(* Abort called from outside, OnKeyPress, OnButtonPress (lines 261-269)    *)
(***************************************************************************)
\* Abort(false), lines 86-88 and 100, for a caller on the application thread:
\* into Abort when running, else return false.
AbortCall ==
  /\ pc["ui"] = "idle"
  /\ IF IsRunning
       THEN /\ pc' = [pc EXCEPT !["ui"] = "Abort"]
            /\ bHandled' = bHandled
       ELSE /\ pc' = [pc EXCEPT !["ui"] = "Abort_return"]
            /\ bHandled' = [bHandled EXCEPT !["ui"] = FALSE]
  /\ ab' = AbortEnter("ui")
  /\ UNCHANGED <<workerVars, callVars, obspc, m_bStop, eventVars, sessionVars,
                 m_bInMotion, m_buttons, m_stateMutex, bEmulation, hookVars, mapVars>>

\* Abort(false) called by the owner of the wizard (Run covers Abort(true)).
ExternalAbort == AbortCall

\* Lines 261-264: called while the keyboard handler is registered.
OnKeyPress ==
  /\ keyboardReg
  /\ AbortCall

\* Lines 266-269: called while the mouse handler is registered.
OnButtonPress ==
  /\ mouseReg
  /\ AbortCall

\* Line 98: return true
AbortCallReturn ==
  /\ pc["ui"] = "Abort"
  /\ ab["ui"] = "return"
  /\ ab' = [ab EXCEPT !["ui"] = "none"]
  /\ pc' = [pc EXCEPT !["ui"] = "Abort_return"]
  /\ bHandled' = [bHandled EXCEPT !["ui"] = TRUE]
  /\ UNCHANGED <<workerVars, callVars, obspc, m_bStop, eventVars, sessionVars,
                 m_bInMotion, m_buttons, m_stateMutex, bEmulation, hookVars, mapVars>>

\* The caller has the result.
AbortCallDone ==
  /\ pc["ui"] = "Abort_return"
  /\ pc' = [pc EXCEPT !["ui"] = "idle"]
  /\ bHandled' = [bHandled EXCEPT !["ui"] = FALSE]
  /\ UNCHANGED <<workerVars, ab, callVars, obspc, m_bStop, eventVars, sessionVars,
                 m_bInMotion, m_buttons, m_stateMutex, bEmulation, hookVars, mapVars>>

(***************************************************************************)
(* OnUnfocus (lines 78-84)                                                 *)
(***************************************************************************)
\* OnUnfocus without the comparison of line 82.
OnUnfocus_AnyButton(button) ==
  /\ pc["ui"] = "idle"
  /\ m_stateMutex = "none"
  /\ m_stateMutex' = "ui"
  /\ pc' = [pc EXCEPT !["ui"] = "OnUnfocus"]
  /\ ab' = AbortEnter("ui")
  /\ UNCHANGED <<workerVars, callVars, bHandled, obspc, m_bStop, eventVars, sessionVars,
                 m_bInMotion, m_buttons, bEmulation, hookVars, mapVars>>

\* Lines 80-83: take m_stateMutex; if (button == m_currentButton) Abort(false)
OnUnfocus(button) ==
  /\ pc["ui"] = "idle"
  /\ m_stateMutex = "none"
  /\ IF button = m_currentButton
       THEN /\ m_stateMutex' = "ui"
            /\ pc' = [pc EXCEPT !["ui"] = "OnUnfocus"]
            /\ ab' = AbortEnter("ui")
       ELSE UNCHANGED <<m_stateMutex, pc, ab>>
  /\ UNCHANGED <<workerVars, callVars, bHandled, obspc, m_bStop, eventVars, sessionVars,
                 m_bInMotion, m_buttons, bEmulation, hookVars, mapVars>>

\* Line 84: Abort(false) returned, the lock goes out of scope.
OnUnfocusReturn ==
  /\ pc["ui"] = "OnUnfocus"
  /\ ab["ui"] \in {"return", "none"}
  /\ ab' = [ab EXCEPT !["ui"] = "none"]
  /\ m_stateMutex' = "none"
  /\ pc' = [pc EXCEPT !["ui"] = "idle"]
  /\ UNCHANGED <<workerVars, callVars, bHandled, obspc, m_bStop, eventVars, sessionVars,
                 m_bInMotion, m_buttons, bEmulation, hookVars, mapVars>>

(***************************************************************************)
(* MapPrimitive (lines 166-236), on input thread t                         *)
(***************************************************************************)
\* Line 235: return bHandled; the other locals of the call go away.
MapPrimitiveReturn(t, bResult) ==
  /\ pc' = [pc EXCEPT ![t] = "mp_return"]
  /\ prim' = [prim EXCEPT ![t] = NoPrimitive]
  /\ bmap' = [bmap EXCEPT ![t] = "none"]
  /\ snap' = [snap EXCEPT ![t] = NoSnap]
  /\ bHandled' = [bHandled EXCEPT ![t] = bResult]

\* Lines 166-172: the button mapper is called with a primitive of a device,
\* while this is registered as joystick button mapper.
MapPrimitive(t, buttonMap, primitive) ==
  /\ pc[t] = "idle"
  /\ mapperReg
  /\ pc' = [pc EXCEPT ![t] = "mp_dispatch"]
  /\ prim' = [prim EXCEPT ![t] = primitive]
  /\ bmap' = [bmap EXCEPT ![t] = buttonMap]
  /\ UNCHANGED <<workerVars, ab, snap, bHandled, obspc, m_bStop, eventVars, sessionVars,
                 m_bInMotion, m_buttons, m_stateMutex, bEmulation, hookVars, mapVars>>

\* The dispatch without the IsIgnored branch of lines 185-188.
MapPrimitiveDispatch_NoIgnore(t) ==
  /\ pc[t] = "mp_dispatch"
  /\ IF IsCancel(prim[t])
       THEN /\ ab' = AbortEnter(t)
            /\ IF IsRunning
                 THEN /\ pc' = [pc EXCEPT ![t] = "mp_abort"]
                      /\ UNCHANGED <<callVars, bHandled>>
                 ELSE MapPrimitiveReturn(t, FALSE)
       ELSE /\ ab' = ab
            /\ IF prim[t] \in m_history
                 THEN MapPrimitiveReturn(t, TRUE)
                 ELSE /\ pc' = [pc EXCEPT ![t] = "mp_snapshot"]
                      /\ UNCHANGED <<callVars, bHandled>>
  /\ UNCHANGED <<workerVars, obspc, m_bStop, eventVars, sessionVars, m_bInMotion,
                 m_buttons, m_stateMutex, bEmulation, hookVars, mapVars>>

\* Lines 174-189: the cancel input, the history, the ignore policy.
MapPrimitiveDispatch(t) ==
  /\ pc[t] = "mp_dispatch"
  /\ IF IsCancel(prim[t])
       THEN /\ ab' = AbortEnter(t)
            /\ IF IsRunning
                 THEN /\ pc' = [pc EXCEPT ![t] = "mp_abort"]
                      /\ UNCHANGED <<callVars, bHandled>>
                 ELSE MapPrimitiveReturn(t, FALSE)
       ELSE /\ ab' = ab
            /\ IF prim[t] \in m_history
                 THEN MapPrimitiveReturn(t, TRUE)
                 ELSE IF IsIgnored(bmap[t], prim[t])
                        THEN MapPrimitiveReturn(t, TRUE)
                        ELSE /\ pc' = [pc EXCEPT ![t] = "mp_snapshot"]
                             /\ UNCHANGED <<callVars, bHandled>>
  /\ UNCHANGED <<workerVars, obspc, m_bStop, eventVars, sessionVars, m_bInMotion,
                 m_buttons, m_stateMutex, bEmulation, hookVars, mapVars>>

\* Line 178: bHandled = Abort(false) returned true.
MapPrimitiveAbortReturn(t) ==
  /\ pc[t] = "mp_abort"
  /\ ab[t] = "return"
  /\ ab' = [ab EXCEPT ![t] = "none"]
  /\ MapPrimitiveReturn(t, TRUE)
  /\ UNCHANGED <<workerVars, obspc, m_bStop, eventVars, sessionVars, m_bInMotion,
                 m_buttons, m_stateMutex, bEmulation, hookVars, mapVars>>

\* Lines 191-200: the current button and direction, read under m_stateMutex.
MapPrimitiveSnapshot(t) ==
  /\ pc[t] = "mp_snapshot"
  /\ m_stateMutex = "none"
  /\ IF m_currentButton # NoButton
       THEN /\ snap' = [snap EXCEPT ![t] = <<m_currentButton, m_currentDirection>>]
            /\ pc' = [pc EXCEPT ![t] = "mp_record"]
            /\ UNCHANGED <<prim, bmap, bHandled>>
       ELSE MapPrimitiveReturn(t, FALSE)
  /\ UNCHANGED <<workerVars, ab, obspc, m_bStop, eventVars, sessionVars, m_bInMotion,
                 m_buttons, m_stateMutex, bEmulation, hookVars, mapVars>>

\* The record without the test of line 225: the primitive goes into m_history
\* whatever the type of the feature.
MapPrimitiveRecord_AlwaysInsert(t) ==
  /\ pc[t] = "mp_record"
  /\ m_history' = m_history \cup {prim[t]}
  /\ IF Feature(snap[t][1]).type \in {"SCALAR", "ANALOG_STICK"}
       THEN /\ recorded' = recorded \cup {prim[t]}
            /\ unsaved' = unsaved \cup {bmap[t]}
            /\ bHandled' = [bHandled EXCEPT ![t] = TRUE]
            /\ pc' = [pc EXCEPT ![t] = "mp_motion"]
            /\ prim' = [prim EXCEPT ![t] = NoPrimitive]
            /\ snap' = [snap EXCEPT ![t] = NoSnap]
            /\ bmap' = bmap
       ELSE /\ MapPrimitiveReturn(t, FALSE)
            /\ UNCHANGED <<recorded, unsaved>>
  /\ UNCHANGED <<workerVars, ab, obspc, m_bStop, eventVars, m_currentButton,
                 m_currentDirection, m_bInMotion, m_buttons, m_stateMutex, bEmulation,
                 hookVars>>

\* Lines 207-227: AddScalar or AddAnalogStick by the type of the feature, then
\* m_history.insert(primitive).
MapPrimitiveRecord(t) ==
  /\ pc[t] = "mp_record"
  /\ IF Feature(snap[t][1]).type \in {"SCALAR", "ANALOG_STICK"}
       THEN /\ recorded' = recorded \cup {prim[t]}
            /\ unsaved' = unsaved \cup {bmap[t]}
            /\ m_history' = m_history \cup {prim[t]}
            /\ bHandled' = [bHandled EXCEPT ![t] = TRUE]
            /\ pc' = [pc EXCEPT ![t] = "mp_motion"]
            /\ prim' = [prim EXCEPT ![t] = NoPrimitive]
            /\ snap' = [snap EXCEPT ![t] = NoSnap]
            /\ bmap' = bmap
       ELSE /\ MapPrimitiveReturn(t, FALSE)
            /\ UNCHANGED <<recorded, unsaved, m_history>>
  /\ UNCHANGED <<workerVars, ab, obspc, m_bStop, eventVars, m_currentButton,
                 m_currentDirection, m_bInMotion, m_buttons, m_stateMutex, bEmulation,
                 hookVars>>

(***************************************************************************)
(* Motion tracking (lines 238-259)                                         *)
(***************************************************************************)
\* OnMotion without the m_motionlessEvent.Reset() of line 250.
OnMotion_NoReset(buttonMap) ==
  /\ m_motionlessEvent' = m_motionlessEvent
  /\ m_bInMotion' = m_bInMotion \cup {buttonMap}

\* Lines 246-252, under m_motionMutex
OnMotion(buttonMap) ==
  /\ m_motionlessEvent' = "none"
  /\ m_bInMotion' = m_bInMotion \cup {buttonMap}

\* Lines 254-259
OnMotionless(buttonMap) ==
  /\ m_bInMotion' = m_bInMotion \ {buttonMap}
  /\ m_motionlessEvent' = IF m_bInMotion \ {buttonMap} = {}
                            THEN SetEvent(m_motionlessEvent, "OnMotionless")
                            ELSE m_motionlessEvent

\* Line 229: OnMotion(buttonMap)
MapPrimitiveOnMotion(t) ==
  /\ pc[t] = "mp_motion"
  /\ OnMotion(bmap[t])
  /\ pc' = [pc EXCEPT ![t] = "mp_signal"]
  /\ UNCHANGED <<workerVars, ab, callVars, bHandled, obspc, m_bStop, m_inputEvent,
                 sessionVars, m_buttons, m_stateMutex, bEmulation, hookVars, mapVars>>

\* Lines 230-235: m_inputEvent.Set(); return bHandled
MapPrimitiveSignal(t) ==
  /\ pc[t] = "mp_signal"
  /\ m_inputEvent' = TRUE
  /\ MapPrimitiveReturn(t, TRUE)
  /\ UNCHANGED <<workerVars, ab, obspc, m_bStop, m_motionlessEvent, sessionVars,
                 m_bInMotion, m_buttons, m_stateMutex, bEmulation, hookVars, mapVars>>

\* The caller has the result.
MapPrimitiveDone(t) ==
  /\ pc[t] = "mp_return"
  /\ pc' = [pc EXCEPT ![t] = "idle"]
  /\ bHandled' = [bHandled EXCEPT ![t] = FALSE]
  /\ UNCHANGED <<workerVars, ab, callVars, obspc, m_bStop, eventVars, sessionVars,
                 m_bInMotion, m_buttons, m_stateMutex, bEmulation, hookVars, mapVars>>

\* Lines 238-244, under m_motionMutex: the button mapper is told of a frame.
OnEventFrame(t, buttonMap, bMotion) ==
  /\ pc[t] = "idle"
  /\ mapperReg
  /\ IF buttonMap \in m_bInMotion /\ ~bMotion
       THEN OnMotionless(buttonMap)
       ELSE UNCHANGED <<m_bInMotion, m_motionlessEvent>>
  /\ UNCHANGED <<workerVars, threadVars, ab, obspc, m_bStop, m_inputEvent, sessionVars,
                 m_buttons, m_stateMutex, bEmulation, hookVars, mapVars>>

(***************************************************************************)
(* Notify (lines 298-313), on the thread that dispatches to the observers  *)
(***************************************************************************)
\* Lines 302-306: called while this is registered as observer.
NotifyUnregister(msg) ==
  /\ obspc = "idle"
  /\ observerReg
  /\ IF msg = "PeripheralsChanged"
       THEN /\ mapperReg' = Unregister(mapperReg)
            /\ obspc' = "register"
       ELSE UNCHANGED <<mapperReg, obspc>>
  /\ UNCHANGED <<workerVars, threadVars, ab, m_bStop, eventVars, sessionVars, m_bInMotion,
                 m_buttons, m_stateMutex, bEmulation, observerReg, keyboardReg, mouseReg,
                 mapVars>>

\* Line 307
NotifyRegister ==
  /\ obspc = "register"
  /\ mapperReg' = Register(mapperReg)
  /\ obspc' = "idle"
  /\ UNCHANGED <<workerVars, threadVars, ab, m_bStop, eventVars, sessionVars, m_bInMotion,
                 m_buttons, m_stateMutex, bEmulation, observerReg, keyboardReg, mouseReg,
                 mapVars>>

(***************************************************************************)
(* The threads                                                             *)
(***************************************************************************)
\* Lines 90-93 of an Abort call of thread t
AbortSignal(t) ==
  \/ AbortStopThread(t)
  \/ AbortSetInput(t)
  \/ AbortSetMotionless(t)

AbortStep(t) ==
  \/ AbortSignal(t)
  \/ AbortWait(t)

Worker ==
  \/ ProcessInstallHooks
  \/ ProcessLock
  \/ ProcessFor
  \/ ProcessWhile
  \/ ProcessPromptInput
  \/ ProcessAbortReturn
  \/ ProcessRelock
  \/ ProcessReset
  \/ ProcessInitializeState
  \/ ProcessSaveButtonMap
  \/ ProcessCheckMotion
  \/ ProcessSettleSignaled
  \/ ProcessRemoveHooks
  \/ AbortSignal("worker")

\* The steps of a handler that has been entered, on thread t.
Continue(t) ==
  \/ AbortStep(t)
  \/ t = "ui" /\ (RunAbortReturn \/ (\E b \in ButtonLists : RunReset(b)) \/ RunCreate
                  \/ AbortCallReturn \/ AbortCallDone \/ OnUnfocusReturn)
  \/ t \in InputThreads /\ (MapPrimitiveDispatch(t)
                            \/ MapPrimitiveAbortReturn(t) \/ MapPrimitiveSnapshot(t)
                            \/ MapPrimitiveRecord(t) \/ MapPrimitiveOnMotion(t)
                            \/ MapPrimitiveSignal(t) \/ MapPrimitiveDone(t))

\* What the environment does: calls and callbacks, a failing prompt, the
\* expiry of the settle wait.
Environment(t) ==
  \/ RunAbort
  \/ ExternalAbort
  \/ OnKeyPress
  \/ OnButtonPress
  \/ \E b \in FeatureButtons : OnUnfocus(b)
  \/ \E bm \in ButtonMaps, p \in Primitives : MapPrimitive(t, bm, p)
  \/ \E bm \in ButtonMaps, m \in BOOLEAN : OnEventFrame(t, bm, m)
  \/ \E msg \in Messages : NotifyUnregister(msg)
  \/ ProcessPromptFailed

Next ==
  \/ Worker
  \/ ProcessSettleTimeout
  \/ \E t \in {"in1", "ui"} : Continue(t)
  \/ NotifyRegister
  \/ Environment("in1")

Spec == Init /\ [][Next]_vars

\* Two input threads deliver primitives during one run.
RunOnce ==
  /\ m_buttons = <<>>
  /\ RunAbort

MapPrimitiveStep(t) ==
  \/ MapPrimitiveDispatch(t)
  \/ AbortSignal(t)
  \/ MapPrimitiveAbortReturn(t)
  \/ MapPrimitiveSnapshot(t)
  \/ MapPrimitiveRecord(t)
  \/ MapPrimitiveOnMotion(t)
  \/ MapPrimitiveSignal(t)
  \/ MapPrimitiveDone(t)

NextInputs ==
  \/ RunOnce
  \/ \E b \in ButtonLists : RunReset(b)
  \/ RunCreate
  \/ ProcessInstallHooks
  \/ ProcessLock
  \/ ProcessFor
  \/ ProcessWhile
  \/ ProcessPromptInput
  \/ ProcessRelock
  \/ ProcessReset
  \/ ProcessInitializeState
  \/ ProcessSaveButtonMap
  \/ ProcessCheckMotion
  \/ ProcessSettleSignaled
  \/ ProcessSettleTimeout
  \/ ProcessRemoveHooks
  \/ \E t \in InputThreads : MapPrimitiveStep(t)
  \/ \E t \in InputThreads, bm \in ButtonMaps, p \in Primitives : MapPrimitive(t, bm, p)
  \/ \E t \in InputThreads, bm \in ButtonMaps, m \in BOOLEAN : OnEventFrame(t, bm, m)

SpecInputs == Init /\ [][NextInputs]_vars

\* One run with one input thread; a key press, a focus loss, the cancel
\* input or a failing prompt may abort it.
NextRun ==
  \/ RunOnce
  \/ \E b \in ButtonLists : RunReset(b)
  \/ RunCreate
  \/ Worker
  \/ ProcessSettleTimeout
  \/ ProcessPromptFailed
  \/ OnKeyPress
  \/ AbortSignal("ui")
  \/ AbortCallReturn
  \/ AbortCallDone
  \/ \E b \in FeatureButtons : OnUnfocus(b)
  \/ OnUnfocusReturn
  \/ MapPrimitiveStep("in1")
  \/ \E bm \in ButtonMaps, p \in Primitives : MapPrimitive("in1", bm, p)
  \/ \E bm \in ButtonMaps, m \in BOOLEAN : OnEventFrame("in1", bm, m)

\* The worker thread is scheduled and gets m_stateMutex when it is free again
\* and again, the timed wait of line 158 expires, and OnUnfocus, whose Abort
\* does not wait, runs on to release m_stateMutex.
FairSpec ==
  /\ Init /\ [][NextRun]_vars
  /\ SF_vars(Worker)
  /\ WF_vars(ProcessSettleTimeout)
  /\ WF_vars(AbortSignal("ui") \/ OnUnfocusReturn)

(***************************************************************************)
(* Properties                                                              *)
(***************************************************************************)
\* Thread t takes the step.
StepOf(t) == pc'[t] # pc[t] \/ ab'[t] # ab[t]

\* An Abort call has set m_bStop and has not yet signaled both events.
AbortInFlight == \E t \in AbortCallers : ab[t] \in {"input", "motionless"}

\* The state MapPrimitive reads and writes apart from its own locals.
mappingVars == <<recorded, unsaved, m_history, m_bInMotion, m_motionlessEvent, m_inputEvent>>

\* C1: in one run a primitive is given to AddScalar/AddAnalogStick at most
\* once: MapPrimitive never records a primitive that this run has recorded.
C1_RecordedAtMostOnce ==
  [][\A t \in InputThreads :
       (pc[t] = "mp_record" /\ pc'[t] = "mp_motion") => prim[t] \notin recorded]_vars

\* C2 as claimed: a MapPrimitive call for a primitive that IsIgnored reports
\* records nothing, leaves history, motion set and both events alone, and
\* returns true.
C2_IgnoredOnlyReturnsHandled ==
  [][\A t \in InputThreads :
       (pc[t] # "idle" /\ IsIgnored(bmap[t], prim[t]) /\ StepOf(t))
         => /\ UNCHANGED mappingVars
            /\ pc'[t] = "mp_return" /\ bHandled'[t]]_vars

\* C2 as amended: the same for an ignored primitive that is not the cancel
\* input, which is tested first.
C2_IgnoredNotCancelOnlyReturnsHandled ==
  [][\A t \in InputThreads :
       (pc[t] # "idle" /\ IsIgnored(bmap[t], prim[t]) /\ ~IsCancel(prim[t]) /\ StepOf(t))
         => /\ UNCHANGED mappingVars
            /\ pc'[t] = "mp_return" /\ bHandled'[t]]_vars

\* An ignored primitive came while the worker waits for input: handled, with
\* nothing recorded, nothing in the history, no abort and no signal.
C2_Witness ==
  /\ pc["in1"] = "mp_return" /\ bHandled["in1"]
  /\ wpc = "prompt" /\ m_currentButton # NoButton
  /\ recorded = {} /\ m_history = {} /\ m_bInMotion = {}
  /\ ~m_bStop /\ ~m_inputEvent /\ ~AbortInFlight

\* C3: once the worker is idle no hook is registered.
C3_HooksRemovedWhenIdle ==
  wpc = "idle" => ~mapperReg /\ ~observerReg /\ ~keyboardReg /\ ~mouseReg

\* C4: Create() starts a worker only when the old one has exited, and
\* InstallHooks never registers a hook that is still registered.
C4_RestartAfterTeardown ==
  [][/\ (pc["ui"] = "Run_create" /\ pc'["ui"] = "idle") => wpc = "idle"
     /\ (wpc = "install" /\ wpc' = "lock")
          => ~mapperReg /\ ~observerReg /\ ~keyboardReg /\ ~mouseReg]_vars

\* C5: the worker waits for the motion to settle only when the motion set
\* is non-empty at line 153, and with the timeout of line 158 it goes on to
\* RemoveHooks and becomes idle although no frame without motion arrives.
C5_SettleWaitEnds ==
  /\ [][(wpc = "motion" /\ wpc' # "motion")
         => wpc' = (IF m_bInMotion = {} THEN "remove" ELSE "settle")]_vars
  /\ (wpc \in {"motion", "settle"}) ~> (wpc = "idle")

\* The worker waits for the motion to settle and nothing has signaled.
C5_Witness ==
  /\ wpc = "settle" /\ m_bInMotion # {} /\ ~Signaled(m_motionlessEvent)
  /\ \A t \in InputThreads : pc[t] = "idle"

\* The positions of Process up to the SaveButtonMap calls of lines 145-146
BeforeSave == {"install", "lock", "for", "while", "prompt", "abort", "relock", "reset",
               "init", "save"}

\* C6: when the cancel input is delivered during a run, the SaveButtonMap
\* calls of the run are still to come unless every record of the run is saved:
\* no record stays unsaved when the run ends.
C6_CancelSavesRecords ==
  [][\A t \in InputThreads :
       (pc[t] = "mp_dispatch" /\ IsCancel(prim[t]) /\ IsRunning /\ StepOf(t))
         => (unsaved = {} \/ wpc \in BeforeSave)]_vars

\* The positions of Process from the wait for input on: the worker has
\* prompted for the current feature.
Prompted == {"prompt", "abort", "relock", "reset", "init", "save", "motion", "settle", "remove"}

\* C7: OnUnfocus for a button that is not current changes nothing. For the
\* current button it requests the abort and never waits for the worker; it
\* sets m_bStop while the worker has prompted for the current feature, and from
\* then on the worker makes no feature current and starts no prompt; the
\* worker goes on to RemoveHooks and becomes idle.
C7_UnfocusAbortsRun ==
  /\ [][\A b \in FeatureButtons :
          (b # m_currentButton /\ OnUnfocus(b)) => UNCHANGED vars]_vars
  /\ [][(pc["ui"] = "idle" /\ pc'["ui"] = "OnUnfocus")
          => IsRunning /\ ab'["ui"] = "stop"]_vars
  /\ [](pc["ui"] = "OnUnfocus"
          => ab["ui"] # "wait" /\ m_stateMutex = "ui" /\ wpc \in Prompted)
  /\ [][(m_bStop /\ wpc \in Prompted)
          => /\ m_currentButton' \in {m_currentButton, NoButton}
             /\ wpc' \in Prompted \cup {"idle"}
             /\ wpc' = "prompt" => wpc = "prompt"]_vars
  /\ (pc["ui"] = "OnUnfocus" /\ m_bStop) ~> (wpc = "idle")

\* OnUnfocus for the first of two features has requested the abort and the
\* worker has left its wait.
C7_Witness ==
  /\ pc["ui"] = "OnUnfocus" /\ ab["ui"] = "return" /\ m_bStop
  /\ Len(m_buttons) = 2 /\ wIndex = 1 /\ m_currentButton = m_buttons[1]
  /\ wpc = "relock"

\* C8: Abort(false) called while no run is active returns false and changes
\* nothing; it goes on to stop the worker only when a run is active, and then
\* returns true.
C8_AbortWhenIdleIsNoOp ==
  [][/\ (pc["ui"] = "idle" /\ pc'["ui"] = "Abort_return")
          => /\ ~IsRunning /\ ~bHandled'["ui"]
             /\ UNCHANGED <<workerVars, ab, callVars, obspc, m_bStop, eventVars,
                            sessionVars, m_bInMotion, m_buttons, m_stateMutex,
                            bEmulation, hookVars, mapVars>>
     /\ (pc["ui"] = "idle" /\ pc'["ui"] = "Abort") => IsRunning
     /\ (pc["ui"] = "Abort" /\ pc'["ui"] = "Abort_return") => bHandled'["ui"]
     /\ \A t \in InputThreads :
          (pc[t] = "mp_dispatch" /\ IsCancel(prim[t]) /\ ~IsRunning /\ StepOf(t))
            => /\ pc'[t] = "mp_return" /\ ~bHandled'[t]
               /\ UNCHANGED <<workerVars, ab, obspc, m_bStop, eventVars, sessionVars,
                              m_bInMotion, m_buttons, m_stateMutex, bEmulation,
                              hookVars, mapVars>>]_vars

\* Abort returned false after a run has ended, its stop flag still set.
C8_Witness ==
  /\ pc["ui"] = "Abort_return" /\ ~bHandled["ui"]
  /\ wpc = "idle" /\ m_buttons # <<>> /\ m_bStop

\* C9: once Abort has set m_bStop and signaled both events, the worker is not
\* blocked: where it waits, the event it waits on is signaled.
C9_AbortedWorkerNotBlocked ==
  (m_bStop /\ ~AbortInFlight)
    => /\ wpc = "prompt" => m_inputEvent
       /\ wpc = "settle" => Signaled(m_motionlessEvent)

\* C10 as claimed: the settle event is signaled iff the motion set is empty.
C10_SignaledIffMotionless == Signaled(m_motionlessEvent) <=> m_bInMotion = {}

\* C10 as amended: when the settle event is signaled by OnMotionless, not by
\* Abort, the motion set is empty.
C10_SignaledByMotionlessThenEmpty ==
  m_motionlessEvent = "OnMotionless" => m_bInMotion = {}

\* A frame without motion emptied the motion set while the worker waits for
\* it to settle.
C10_Witness ==
  /\ m_motionlessEvent = "OnMotionless" /\ wpc = "settle"

\* The positions of Process between InstallHooks and RemoveHooks
Hooked == (BeforeSave \ {"install"}) \cup {"motion", "settle", "remove"}

\* C11: between the worker's InstallHooks and its RemoveHooks the wizard is
\* registered as button mapper, observer, mouse handler and (without
\* emulation) keyboard handler in every state, and Notify requests no abort.
C11_RegisteredThroughoutRun ==
  /\ [](wpc \in Hooked
          => /\ mapperReg /\ observerReg /\ mouseReg
             /\ ~bEmulation => keyboardReg)
  /\ [][obspc' # obspc => UNCHANGED <<m_bStop, ab, eventVars>>]_vars

\* C12: a signal of m_inputEvent given while the worker is in its wait for
\* input stays until the worker's wait takes it; Abort signals m_inputEvent
\* to a running worker only with m_bStop set, and the worker goes back to
\* prompt after a wake only when m_bStop is not set.
C12_NoMissedWake ==
  [][/\ (wpc = "prompt" /\ m_inputEvent /\ ~m_inputEvent') => wpc' = "relock"
     /\ \A t \in AbortCallers :
          (ab[t] = "input" /\ ab'[t] # "input" /\ IsRunning) => m_bStop
     /\ (wpc = "relock" /\ wpc' = "while") => ~m_bStop]_vars

\* C13: m_history is written only in a step of the thread that holds
\* m_stateMutex (the worker's InitializeState, Run's locked block) and read by
\* MapPrimitive only under it; m_bInMotion is written only in a critical
\* section of m_motionMutex (OnMotion in MapPrimitive, OnEventFrame), so not by
\* Run.
C13_SetsOwnedByTheirLocks ==
  [][/\ m_history' # m_history
          => \/ wpc = "init" /\ m_stateMutex = "worker"
             \/ pc["ui"] = "Run_reset" /\ pc'["ui"] = "Run_create"
     /\ \A t \in InputThreads :
          (pc[t] = "mp_dispatch" /\ StepOf(t) /\ ~IsCancel(prim[t])) => m_stateMutex = t
     /\ m_bInMotion' # m_bInMotion => pc'["ui"] = pc["ui"]]_vars

\* C14: the worker holds m_stateMutex neither while it waits for input or for
\* the motion to settle nor in its critical section of m_motionMutex; a
\* caller that waits in Abort for the worker to exit does not hold it; and the
\* motion update of MapPrimitive and of OnEventFrame can run whoever holds
\* m_stateMutex.
C14_NoNestingNoWaitUnderLock ==
  /\ wpc \in {"prompt", "abort", "motion", "settle"} => m_stateMutex # "worker"
  /\ \A t \in AbortCallers : ab[t] = "wait" => m_stateMutex # t
  /\ \A t \in InputThreads :
       /\ pc[t] = "mp_motion" => m_stateMutex # t /\ ENABLED MapPrimitiveOnMotion(t)
       /\ (pc[t] = "idle" /\ mapperReg) => ENABLED OnEventFrame(t, "bm1", FALSE)

\* An input thread is about to run OnMotion while OnUnfocus holds
\* m_stateMutex and the worker waits for input.
C14_Witness ==
  /\ pc["in1"] = "mp_motion" /\ m_stateMutex = "ui" /\ wpc = "prompt"

\* C15 as claimed: the worker's handling of a PromptForInput that returned
\* false does not stop the run: it leaves m_bStop as it is.
C15_PromptFailureKeepsRun ==
  [][(ab["worker"] = "stop" /\ ab'["worker"] # "stop") => m_bStop' = m_bStop]_vars

\* C15 as amended: when PromptForInput returns false the worker calls
\* Abort(false), which sets m_bStop; the worker comes back from it with m_bStop
\* set, and from then on makes no feature current and starts no prompt.
C15_PromptFailureStopsRun ==
  [][/\ (wpc = "prompt" /\ wpc' = "abort") => ab'["worker"] = "stop"
     /\ (ab["worker"] = "stop" /\ ab'["worker"] # "stop") => m_bStop'
     /\ (wpc = "abort" /\ wpc' # "abort")
          => m_bStop /\ ab["worker"] = "return" /\ wpc' = "relock"
     /\ (m_bStop /\ wpc \in Prompted \ {"prompt"})
          => /\ m_currentButton' \in {m_currentButton, NoButton}
             /\ wpc' # "prompt"]_vars

\* The prompt for the first of two features failed and the worker's
\* Abort(false) has run, no other thread being in Abort.
C15_Witness ==
  /\ wpc = "abort" /\ ab["worker"] = "return" /\ m_bStop
  /\ Len(m_buttons) = 2 /\ wIndex = 1 /\ m_currentButton = m_buttons[1]
  /\ \A t \in AbortCallers \ {"worker"} : ab[t] = "none"

\* The feature types MapPrimitive records for (lines 209-220)
RecordedTypes == {"SCALAR", "ANALOG_STICK"}

\* C16: a MapPrimitive call that finds no current feature, or a feature that
\* is neither scalar nor analog stick, returns false and leaves the records,
\* m_history, m_bInMotion and both events as they are; a call that records
\* puts the primitive into m_history, then the button map into m_bInMotion,
\* then signals m_inputEvent and returns true.
C16_EffectsOnlyOnRecord ==
  [][\A t \in InputThreads :
       /\ (pc[t] = "mp_snapshot" /\ StepOf(t) /\ m_currentButton = NoButton)
            => pc'[t] = "mp_return" /\ ~bHandled'[t] /\ UNCHANGED mappingVars
       /\ (pc[t] = "mp_record" /\ StepOf(t) /\ Feature(snap[t][1]).type \notin RecordedTypes)
            => pc'[t] = "mp_return" /\ ~bHandled'[t] /\ UNCHANGED mappingVars
       /\ (pc[t] = "mp_record" /\ StepOf(t) /\ Feature(snap[t][1]).type \in RecordedTypes)
            => /\ pc'[t] = "mp_motion"
               /\ recorded' = recorded \cup {prim[t]}
               /\ m_history' = m_history \cup {prim[t]}
       /\ (pc[t] = "mp_motion" /\ StepOf(t))
            => pc'[t] = "mp_signal" /\ bmap[t] \in m_bInMotion'
       /\ (pc[t] = "mp_signal" /\ StepOf(t))
            => pc'[t] = "mp_return" /\ bHandled'[t] /\ m_inputEvent']_vars

\* A primitive came for the accelerometer feature while the worker waits for
\* input: unhandled, the worker not woken.
C16_Witness ==
  /\ pc["in1"] = "mp_return" /\ ~bHandled["in1"]
  /\ wpc = "prompt" /\ m_currentButton = 3 /\ ~m_inputEvent /\ ~m_bStop

\* C17: SaveButtonMap runs with m_stateMutex released and the current feature
\* cleared, and when the worker becomes idle no button map holds a record
\* made after its last SaveButtonMap.
C17_RecordsSavedByRun ==
  [][/\ (wpc = "save" /\ wpc' # "save")
          => m_stateMutex # "worker" /\ m_currentButton = NoButton
     /\ (wpc # "idle" /\ wpc' = "idle") => unsaved = {}]_vars

\* C19: MapPrimitive records a primitive only against the feature and the
\* direction that are current when it records.
C19_RecordAgainstCurrent ==
  [][\A t \in InputThreads :
       (pc[t] = "mp_record" /\ pc'[t] = "mp_motion")
         => snap[t] = <<m_currentButton, m_currentDirection>>]_vars

\* The positions of Process inside the feature loop, up to InitializeState
InLoop == {"for", "while", "prompt", "abort", "relock", "reset", "init"}

\* C20: while no worker runs the current feature is null, the current
\* direction is UNKNOWN and m_history is empty; the current feature is
\* non-null only while the worker is inside the feature loop.
C20_SessionInitialWhenIdle ==
  /\ wpc = "idle"
       => /\ m_currentButton = NoButton
          /\ m_currentDirection = "UNKNOWN"
          /\ m_history = {}
  /\ m_currentButton # NoButton => wpc \in InLoop

\* C18: the worker makes m_buttons[1], m_buttons[2], ... current in this
\* order; it prompts for and resets only the current feature; it comes to the
\* next feature only from the Reset of the current one, and leaves the loop
\* only from that Reset or when the list is used up, so that each feature made
\* current is reset once.
C18_InOrderResetOnce ==
  [][/\ (wpc = "for" /\ wpc' = "while") => m_currentButton' = m_buttons[wIndex]
     /\ (wpc # "for" /\ wpc' = "for")
          => \/ wpc = "lock" /\ wIndex' = 1
             \/ wpc = "reset" /\ wIndex' = wIndex + 1 /\ ~m_bStop
     /\ (wpc # "prompt" /\ wpc' = "prompt")
          => wpc = "while" /\ m_currentButton = m_buttons[wIndex]
     /\ (wpc # "reset" /\ wpc' = "reset") => wpc \in {"while", "relock"}
     /\ (wpc = "reset" /\ wpc' # "reset")
          => /\ m_currentButton = m_buttons[wIndex]
             /\ wPrompts' = 0
             /\ wpc' \in {"for", "init"}
     /\ (wpc # "init" /\ wpc' = "init")
          => \/ wpc = "reset"
             \/ wpc = "for" /\ wIndex = Len(m_buttons) + 1]_vars

\* The second feature of the list is current, the first one reset, no stop
\* requested.
C18_Witness ==
  /\ wpc = "while" /\ wIndex = 2 /\ m_currentButton = m_buttons[2]
  /\ wPrompts = 0 /\ ~m_bStop

====
